---- MODULE Spec2Model ----
(***************************************************************************)
(* Model of GPy/kern/kern.py: the compound kernel `kern`, a sum of kernel  *)
(* parts, each reading a column slice of the inputs and a row slice of the *)
(* data, with a flat parameter vector assembled from per-part blocks.      *)
(*                                                                         *)
(* Indices are 0-based as in Python; TLA+ sequences are 1-based, so the    *)
(* element with Python index i of a sequence s is s[i + 1].                *)
(***************************************************************************)
EXTENDS Integers, Sequences, FiniteSets, TLC

VARIABLES kerns, made, theta, last

vars == <<kerns, made, theta, last>>

(***************************************************************************)
(* Bounds of the model.                                                    *)
(***************************************************************************)
\* largest number of kern objects (two constructed, the rest composed)
MaxKerns == 3
\* largest number of rows of an input matrix
MaxRows == 2

(***************************************************************************)
(* Python values.                                                          *)
(***************************************************************************)
\* a missing start/stop/step of a slice object
NoneIdx == -1000
\* the argument None, the argument False, a list argument
PyNone == [tag |-> "None"]
PyFalse == [tag |-> "False"]
PyList(items) == [tag |-> "list", items |-> items]
\* slice(start, stop, step), and a bool, as list items
slice(start, stop, step) == [tag |-> "slice", start |-> start, stop |-> stop, step |-> step]
PyBool(b) == [tag |-> "bool", val |-> b]
sliceNone == slice(NoneIdx, NoneIdx, NoneIdx)
\* slice(0): start None, stop 0
slice0 == slice(NoneIdx, 0, NoneIdx)

Min(a, b) == IF a < b THEN a ELSE b
Max(a, b) == IF a < b THEN b ELSE a

RECURSIVE SumSeq(_)
SumSeq(s) == IF s = <<>> THEN 0 ELSE Head(s) + SumSeq(Tail(s))

\* slice.indices(length): the (start, stop, step) of the slice over a
\* sequence of that length
SliceIndices(sl, length) ==
  LET step == IF sl.step = NoneIdx THEN 1 ELSE sl.step
      lower == IF step < 0 THEN -1 ELSE 0
      upper == IF step < 0 THEN length - 1 ELSE length
      Clamp(v) == IF v < 0 THEN Max(v + length, lower) ELSE Min(v, upper)
      start == IF sl.start = NoneIdx
               THEN (IF step < 0 THEN upper ELSE lower)
               ELSE Clamp(sl.start)
      stop == IF sl.stop = NoneIdx
              THEN (IF step < 0 THEN lower ELSE upper)
              ELSE Clamp(sl.stop)
  IN <<start, stop, step>>

\* range(start, stop, step) as the sequence of its members
PyRange(start, stop, step) ==
  LET n == IF step > 0
           THEN (IF stop > start THEN (stop - start + step - 1) \div step ELSE 0)
           ELSE (IF start > stop THEN (start - stop - step - 1) \div (-step) ELSE 0)
  IN [i \in 1..n |-> start + (i - 1) * step]

\* the indices an axis of the given length yields under a[sl]
Select(sl, length) ==
  LET i == SliceIndices(sl, length) IN PyRange(i[1], i[2], i[3])

(***************************************************************************)
(* Kernel parts (kernpart objects) live on a heap shared by reference:     *)
(* a kern holds part identities, theta[p] is part p's parameter vector.    *)
(***************************************************************************)
PartIds == {1, 2, 3}
\* p.Nparam
PartNparam(p) == IF p = 2 THEN 2 ELSE 1

\* p.get_param()
PartGetParam(th, p) == th[p]

(***************************************************************************)
(* parameterised.__init__: the constraint bookkeeping starts empty.        *)
(***************************************************************************)
NoConstraints ==
  [constrained_positive_indices |-> <<>>,
   constrained_negative_indices |-> <<>>,
   constrained_bounded_indices |-> <<>>,
   constrained_bounded_lowers |-> <<>>,
   constrained_bounded_uppers |-> <<>>,
   constrained_fixed_indices |-> <<>>,
   constrained_fixed_values |-> <<>>,
   tied_indices |-> <<>>]

\* kern.compute_param_slices: one slice(count, count + p.Nparam) per part
RECURSIVE ParamSlicesFrom(_, _)
ParamSlicesFrom(parts, count) ==
  IF parts = <<>> THEN <<>>
  ELSE <<slice(count, count + PartNparam(Head(parts)), NoneIdx)>>
       \o ParamSlicesFrom(Tail(parts), count + PartNparam(Head(parts)))

\* compute_param_slices with the running count never advanced
compute_param_slices_NoAdvance(parts) ==
  [i \in 1..Len(parts) |-> slice(0, PartNparam(parts[i]), NoneIdx)]

compute_param_slices(parts) == ParamSlicesFrom(parts, 0)

\* kern.__init__(D, parts, input_slices); input_slices is PyNone or a list
\* of the same length as parts (the assert of line 42 holds in every use:
\* __add__ and add_orthogonal concatenate parts and slices alike)
kern(D, parts, input_slices) ==
  [D |-> D,
   parts |-> parts,
   Nparts |-> Len(parts),
   Nparam |-> SumSeq([i \in 1..Len(parts) |-> PartNparam(parts[i])]),
   input_slices |->
     IF input_slices.tag = "None"
     THEN [i \in 1..Len(parts) |-> sliceNone]
     ELSE [i \in 1..Len(input_slices.items) |->
             IF input_slices.items[i].tag = "slice"
             THEN input_slices.items[i] ELSE sliceNone],
   param_slices |-> compute_param_slices(parts),
   con |-> NoConstraints]

\* Nparam + x for an index array x
Shift(n, x) == [i \in 1..Len(x) |-> n + x[i]]
ShiftEach(n, xs) == [i \in 1..Len(xs) |-> Shift(n, xs[i])]

\* the transfer with the tied indices of other left unshifted
TransferConstraints_TiedUnshifted(self, other) ==
  [constrained_positive_indices |->
     self.con.constrained_positive_indices
       \o Shift(self.Nparam, other.con.constrained_positive_indices),
   constrained_negative_indices |->
     self.con.constrained_negative_indices
       \o Shift(self.Nparam, other.con.constrained_negative_indices),
   constrained_bounded_indices |->
     self.con.constrained_bounded_indices
       \o ShiftEach(self.Nparam, other.con.constrained_bounded_indices),
   constrained_bounded_lowers |->
     self.con.constrained_bounded_lowers \o other.con.constrained_bounded_lowers,
   constrained_bounded_uppers |->
     self.con.constrained_bounded_uppers \o other.con.constrained_bounded_uppers,
   constrained_fixed_indices |->
     self.con.constrained_fixed_indices
       \o ShiftEach(self.Nparam, other.con.constrained_fixed_indices),
   constrained_fixed_values |->
     self.con.constrained_fixed_values \o other.con.constrained_fixed_values,
   tied_indices |-> self.con.tied_indices \o other.con.tied_indices]

\* the "transfer constraints" block of __add__ and add_orthogonal
TransferConstraints(self, other) ==
  [constrained_positive_indices |->
     self.con.constrained_positive_indices
       \o Shift(self.Nparam, other.con.constrained_positive_indices),
   constrained_negative_indices |->
     self.con.constrained_negative_indices
       \o Shift(self.Nparam, other.con.constrained_negative_indices),
   constrained_bounded_indices |->
     self.con.constrained_bounded_indices
       \o ShiftEach(self.Nparam, other.con.constrained_bounded_indices),
   constrained_bounded_lowers |->
     self.con.constrained_bounded_lowers \o other.con.constrained_bounded_lowers,
   constrained_bounded_uppers |->
     self.con.constrained_bounded_uppers \o other.con.constrained_bounded_uppers,
   constrained_fixed_indices |->
     self.con.constrained_fixed_indices
       \o ShiftEach(self.Nparam, other.con.constrained_fixed_indices),
   constrained_fixed_values |->
     self.con.constrained_fixed_values \o other.con.constrained_fixed_values,
   tied_indices |->
     self.con.tied_indices \o ShiftEach(self.Nparam, other.con.tied_indices)]

\* __add__ with the parts' input slices not handed on to the new kern
add_DefaultSlices(self, other) ==
  [kern(self.D, self.parts \o other.parts, PyNone)
     EXCEPT !.con = TransferConstraints(self, other)]

\* kern.__add__ (and kern.add), defined when self.D == other.D
add(self, other) ==
  [kern(self.D, self.parts \o other.parts,
        PyList(self.input_slices \o other.input_slices))
     EXCEPT !.con = TransferConstraints(self, other)]

\* slice(*sl.indices(D))
NormalizeSlice(sl, D) ==
  LET i == SliceIndices(sl, D) IN slice(i[1], i[2], i[3])

\* slice(i[0] + self.D, i[1] + self.D, i[2]) for i = sl.indices(other.D)
ShiftSlice(sl, otherD, selfD) ==
  LET i == SliceIndices(sl, otherD) IN slice(i[1] + selfD, i[2] + selfD, i[3])

\* kern.add_orthogonal
add_orthogonal(self, other) ==
  LET self_input_slices ==
        [i \in 1..Len(self.input_slices) |-> NormalizeSlice(self.input_slices[i], self.D)]
      other_input_slices ==
        [i \in 1..Len(other.input_slices) |->
           ShiftSlice(other.input_slices[i], other.D, self.D)]
  IN [kern(self.D + other.D, self.parts \o other.parts,
           PyList(self_input_slices \o other_input_slices))
        EXCEPT !.con = TransferConstraints(self, other)]

(***************************************************************************)
(* Arrays.  An input matrix is a record with its shape and its rows; an    *)
(* output buffer (np.zeros(shape)) maps each 0-based index tuple to its    *)
(* value; a view of a buffer is the set of index tuples it aliases.        *)
(***************************************************************************)
\* the array with the given rows, each of d entries
Array(d, rows) == [tag |-> "array", shape |-> <<Len(rows), d>>, a |-> rows]

Cells(shape) ==
  IF Len(shape) = 1 THEN {<<i>> : i \in 0..(shape[1] - 1)}
  ELSE IF Len(shape) = 2
  THEN {<<i, j>> : i \in 0..(shape[1] - 1), j \in 0..(shape[2] - 1)}
  ELSE {<<i, j, l>> : i \in 0..(shape[1] - 1), j \in 0..(shape[2] - 1),
                      l \in 0..(shape[3] - 1)}

\* np.zeros(shape)
zeros(shape) == [shape |-> shape, val |-> [idx \in Cells(shape) |-> 0]]

NoTarget == [shape |-> <<>>, val |-> <<>>]

Members(s) == {s[i] : i \in 1..Len(s)}

\* the outcome of a call: the exception raised ("none": it returned), the
\* part invocations made, in order, and the value returned
Outcome(err, calls, result) == [err |-> err, calls |-> calls, result |-> result]
Raise(err) == Outcome(err, <<>>, NoTarget)

\* one invocation of a method of a part: the rows of X and of X2, the columns
\* of X and of X2 the part is handed, the cells of the target it may write,
\* and (set_param) the vector it is handed
Call(fn, part, rows1, rows2, cols, cols2, region, arg) ==
  [fn |-> fn, part |-> part, rows1 |-> rows1, rows2 |-> rows2,
   cols |-> cols, cols2 |-> cols2, region |-> region, arg |-> arg,
   partial |-> "array"]

(***************************************************************************)
(* The kernel parts' own operations are outside this file.  A part         *)
(* accumulates into the view it is handed: its covariance is a function of *)
(* its parameters and of the two input rows, every other operation adds    *)
(* the part's number to each cell of its view.                             *)
(***************************************************************************)
PartKValue(p, th, xrow, x2row) ==
  (p + SumSeq(th[p]))
    * (1 + SumSeq([i \in 1..Min(Len(xrow), Len(x2row)) |-> xrow[i] * x2row[i]]))

PartIncrement(call, th, X, X2, idx) ==
  IF call.fn = "K"
  THEN PartKValue(call.part, th,
                  [i \in 1..Len(call.cols) |-> X.a[idx[1] + 1][call.cols[i] + 1]],
                  [i \in 1..Len(call.cols2) |-> X2.a[idx[2] + 1][call.cols2[i] + 1]])
  ELSE call.part

PartAccumulate(target, call, th, X, X2) ==
  [target EXCEPT !.val =
     [idx \in DOMAIN target.val |->
        IF idx \in call.region
        THEN target.val[idx] + PartIncrement(call, th, X, X2, idx)
        ELSE target.val[idx]]]

\* the list comprehension [p.f(..., target[...]) for ... in zip(...)]: the
\* parts run in order, each on its view of the one target
RECURSIVE RunParts(_, _, _, _, _)
RunParts(target, calls, th, X, X2) ==
  IF calls = <<>> THEN target
  ELSE RunParts(PartAccumulate(target, Head(calls), th, X, X2), Tail(calls), th, X, X2)

(***************************************************************************)
(* kern._process_slices                                                    *)
(***************************************************************************)
AllTag(items, t) == \A i \in 1..Len(items) : items[i].tag = t

\* lines 73-78 (slices1) and 79-86 (slices2) for a list or None argument
ResolveSelector(Nparts, s) ==
  IF s.tag = "None"
  THEN [err |-> "none", list |-> [i \in 1..Nparts |-> sliceNone]]
  ELSE IF AllTag(s.items, "bool")
  THEN [err |-> "none",
        list |-> [i \in 1..Len(s.items) |->
                    IF s.items[i].val THEN sliceNone ELSE slice0]]
  ELSE IF AllTag(s.items, "slice")
  THEN [err |-> "none", list |-> s.items]
  ELSE [err |-> "AssertionError", list |-> <<>>]

process_slices(self, slices1, slices2) ==
  LET r1 == ResolveSelector(self.Nparts, slices1)
      r2 == ResolveSelector(self.Nparts, slices2)
      Failed == [err |-> "AssertionError", unary |-> FALSE,
                 slices1 |-> <<>>, slices2 |-> <<>>]
  IN IF r1.err # "none" THEN Failed
     ELSE IF slices2.tag = "False"
     THEN [err |-> "none", unary |-> TRUE, slices1 |-> r1.list, slices2 |-> <<>>]
     ELSE IF r2.err # "none" THEN Failed
     ELSE [err |-> "none", unary |-> FALSE, slices1 |-> r1.list, slices2 |-> r2.list]

\* the length of a zip of lists of these lengths
Zip2(a, b) == Min(a, b)
Zip4(a, b, c, d) == Min(Min(a, b), Min(c, d))
Zip5(a, b, c, d, e) == Min(Zip4(a, b, c, d), e)

Prod(rows, cols) == {<<r, c>> : r \in Members(rows), c \in Members(cols)}

(***************************************************************************)
(* kern.get_param, kern.set_param                                          *)
(***************************************************************************)
\* the concatenation np.hstack makes of one array or more
RECURSIVE Concatenate(_)
Concatenate(arrays) ==
  IF Len(arrays) = 1 THEN Head(arrays)
  ELSE Head(arrays) \o Concatenate(Tail(arrays))

\* np.hstack(arrays): an empty list is refused ("need at least one array to
\* concatenate")
hstack(arrays) ==
  IF arrays = <<>> THEN Raise("ValueError")
  ELSE LET v == Concatenate(arrays)
       IN Outcome("none", <<>>, [shape |-> <<Len(v)>>, val |-> v])

\* np.hstack([p.get_param() for p in self.parts])
get_param(self, th) ==
  hstack([i \in 1..Len(self.parts) |-> PartGetParam(th, self.parts[i])])

\* x[s] for a vector x
Take(x, s) == LET idx == Select(s, Len(x)) IN [i \in 1..Len(idx) |-> x[idx[i] + 1]]

\* the arguments of the p.set_param calls of line 139, in order
SetParamCalls(self, x) ==
  [i \in 1..Zip2(Len(self.parts), Len(self.param_slices)) |->
     Call("set_param", self.parts[i], <<>>, <<>>, <<>>, <<>>, {},
          Take(x, self.param_slices[i]))]

\* p.set_param(v): the part takes a vector of its own Nparam entries and
\* refuses any other
PartSetParamOk(p, v) == Len(v) = PartNparam(p)

\* the calls made before (and including) the first one a part refuses
RECURSIVE CallsMade(_)
CallsMade(calls) ==
  IF calls = <<>> THEN <<>>
  ELSE IF ~PartSetParamOk(Head(calls).part, Head(calls).arg) THEN <<Head(calls)>>
  ELSE <<Head(calls)>> \o CallsMade(Tail(calls))

RECURSIVE StoreParams(_, _)
StoreParams(th, calls) ==
  IF calls = <<>> THEN th
  ELSE IF ~PartSetParamOk(Head(calls).part, Head(calls).arg) THEN th
  ELSE StoreParams([th EXCEPT ![Head(calls).part] = Head(calls).arg], Tail(calls))

set_param(self, x) ==
  LET calls == SetParamCalls(self, x)
      done == CallsMade(calls)
      refused == done # <<>> /\ ~PartSetParamOk(done[Len(done)].part, done[Len(done)].arg)
  IN Outcome(IF refused THEN "PartError" ELSE "none", done, NoTarget)

(***************************************************************************)
(* Covariance and its gradients.  N and M are the row counts of X and X2;  *)
(* the partial derivatives handed in have the shape of the forward output. *)
(***************************************************************************)
\* kern.K
K(self, th, X, X2in, slices1, slices2) ==
  IF X.shape[2] # self.D THEN Raise("AssertionError")
  ELSE
    LET ps == process_slices(self, slices1, slices2)
        X2 == IF X2in.tag = "None" THEN X ELSE X2in
        N == X.shape[1]
        M == X2.shape[1]
        n == Zip4(Len(self.parts), Len(self.input_slices),
                  Len(ps.slices1), Len(ps.slices2))
        calls ==
          [i \in 1..n |->
             Call("K", self.parts[i],
                  Select(ps.slices1[i], N), Select(ps.slices2[i], M),
                  Select(self.input_slices[i], X.shape[2]),
                  Select(self.input_slices[i], X2.shape[2]),
                  Prod(Select(ps.slices1[i], N), Select(ps.slices2[i], M)),
                  <<>>)]
    IN IF ps.err # "none" THEN Raise(ps.err)
       ELSE Outcome("none", calls, RunParts(zeros(<<N, M>>), calls, th, X, X2))

\* kern.dK_dtheta
dK_dtheta(self, th, X, X2in, slices1, slices2) ==
  IF X.shape[2] # self.D THEN Raise("AssertionError")
  ELSE
    LET ps == process_slices(self, slices1, slices2)
        X2 == IF X2in.tag = "None" THEN X ELSE X2in
        N == X.shape[1]
        M == X2.shape[1]
        n == Zip5(Len(self.parts), Len(self.input_slices), Len(self.param_slices),
                  Len(ps.slices1), Len(ps.slices2))
        calls ==
          [i \in 1..n |->
             Call("dK_dtheta", self.parts[i],
                  Select(ps.slices1[i], N), Select(ps.slices2[i], M),
                  Select(self.input_slices[i], X.shape[2]),
                  Select(self.input_slices[i], X2.shape[2]),
                  {<<j>> : j \in Members(Select(self.param_slices[i], self.Nparam))},
                  <<>>)]
    IN IF ps.err # "none" THEN Raise(ps.err)
       ELSE Outcome("none", calls, RunParts(zeros(<<self.Nparam>>), calls, th, X, X2))

\* kern.dK_dX
dK_dX(self, th, X, X2in, slices1, slices2) ==
  LET X2 == IF X2in.tag = "None" THEN X ELSE X2in
      ps == process_slices(self, slices1, slices2)
      N == X.shape[1]
      M == X2.shape[1]
      n == Zip5(Len(self.parts), Len(self.input_slices), Len(self.param_slices),
                Len(ps.slices1), Len(ps.slices2))
      calls ==
        [i \in 1..n |->
           Call("dK_dX", self.parts[i],
                Select(ps.slices1[i], N), Select(ps.slices2[i], M),
                Select(self.input_slices[i], X.shape[2]),
                Select(self.input_slices[i], X2.shape[2]),
                Prod(Select(ps.slices1[i], N),
                     Select(self.input_slices[i], X.shape[2])),
                <<>>)]
  IN IF ps.err # "none" THEN Raise(ps.err)
     ELSE Outcome("none", calls, RunParts(zeros(X.shape), calls, th, X, X2))

\* kern.Kdiag
Kdiag(self, th, X, slices) ==
  IF X.shape[2] # self.D THEN Raise("AssertionError")
  ELSE
    LET ps == process_slices(self, slices, PyFalse)
        N == X.shape[1]
        n == Min(Zip2(Len(self.parts), Len(self.input_slices)), Len(ps.slices1))
        calls ==
          [i \in 1..n |->
             Call("Kdiag", self.parts[i],
                  Select(ps.slices1[i], N), <<>>,
                  Select(self.input_slices[i], X.shape[2]), <<>>,
                  {<<r>> : r \in Members(Select(ps.slices1[i], N))},
                  <<>>)]
    IN IF ps.err # "none" THEN Raise(ps.err)
       ELSE Outcome("none", calls, RunParts(zeros(<<N>>), calls, th, X, X))

\* kern.dKdiag_dtheta; partial is a vector of psize entries
dKdiag_dtheta(self, th, psize, X, slices) ==
  IF X.shape[2] # self.D THEN Raise("AssertionError")
  ELSE IF psize # X.shape[1] THEN Raise("AssertionError")
  ELSE
    LET ps == process_slices(self, slices, PyFalse)
        N == X.shape[1]
        n == Zip4(Len(self.parts), Len(self.input_slices), Len(ps.slices1),
                  Len(self.param_slices))
        calls ==
          [i \in 1..n |->
             Call("dKdiag_dtheta", self.parts[i],
                  Select(ps.slices1[i], N), <<>>,
                  Select(self.input_slices[i], X.shape[2]), <<>>,
                  {<<j>> : j \in Members(Select(self.param_slices[i], self.Nparam))},
                  <<>>)]
    IN IF ps.err # "none" THEN Raise(ps.err)
       ELSE Outcome("none", calls, RunParts(zeros(<<self.Nparam>>), calls, th, X, X))

\* kern.dKdiag_dX(X, slices).  The method has no partial parameter: the name
\* partial in its body is functools.partial (line 7).  Subscripting that
\* class raises TypeError where the class is not subscriptable; where it is
\* (it is a generic alias there), every part is handed the alias in place of
\* an array of partial derivatives.
dKdiag_dX(self, th, X, slices, subscriptable) ==
  IF X.shape[2] # self.D THEN Raise("AssertionError")
  ELSE
    LET ps == process_slices(self, slices, PyFalse)
        N == X.shape[1]
        n == Min(Zip2(Len(self.parts), Len(self.input_slices)), Len(ps.slices1))
        calls ==
          [i \in 1..n |->
             [Call("dKdiag_dX", self.parts[i],
                   Select(ps.slices1[i], N), <<>>,
                   Select(self.input_slices[i], X.shape[2]), <<>>,
                   Prod(Select(ps.slices1[i], N),
                        Select(self.input_slices[i], X.shape[2])),
                   <<>>)
                EXCEPT !.partial = "functools.partial"]]
    IN IF ps.err # "none" THEN Raise(ps.err)
       ELSE IF n > 0 /\ ~subscriptable THEN Raise("TypeError")
       ELSE Outcome("none", calls, RunParts(zeros(X.shape), calls, th, X, X))

(***************************************************************************)
(* Hyperparameter gradients of the psi statistics.  N is mu.shape[0], M is *)
(* Z.shape[0].                                                             *)
(***************************************************************************)
\* regions[i] is the view of the target handed to part i
PsiCalls(self, fn, regions) ==
  [i \in 1..Zip2(Len(self.parts), Len(self.param_slices)) |->
     Call(fn, self.parts[i], <<>>, <<>>, <<>>, <<>>, regions[i], <<>>)]

NoArray == Array(0, <<>>)

\* kern.dpsi0_dtheta: target[s] of a target of shape (N, Nparam)
dpsi0_dtheta(self, th, N) ==
  LET Region(s) == {<<r, c>> : r \in Members(Select(s, N)), c \in 0..(self.Nparam - 1)}
      calls == PsiCalls(self, "dpsi0_dtheta",
                        [i \in 1..Len(self.param_slices) |-> Region(self.param_slices[i])])
  IN Outcome("none", calls,
             RunParts(zeros(<<N, self.Nparam>>), calls, th, NoArray, NoArray))

\* kern.dpsi1_dtheta: target[:,:,s] of a target of shape (N, M, Nparam)
dpsi1_dtheta(self, th, N, M) ==
  LET Region(s) == {<<r, c, j>> : r \in 0..(N - 1), c \in 0..(M - 1),
                                  j \in Members(Select(s, self.Nparam))}
      calls == PsiCalls(self, "dpsi1_dtheta",
                        [i \in 1..Len(self.param_slices) |-> Region(self.param_slices[i])])
  IN Outcome("none", calls,
             RunParts(zeros(<<N, M, self.Nparam>>), calls, th, NoArray, NoArray))

\* kern.dpsi2_dtheta: target[:,:,s] of a target of shape (M, M, Nparam)
dpsi2_dtheta(self, th, M) ==
  LET Region(s) == {<<r, c, j>> : r \in 0..(M - 1), c \in 0..(M - 1),
                                  j \in Members(Select(s, self.Nparam))}
      calls == PsiCalls(self, "dpsi2_dtheta",
                        [i \in 1..Len(self.param_slices) |-> Region(self.param_slices[i])])
  IN Outcome("none", calls,
             RunParts(zeros(<<M, M, self.Nparam>>), calls, th, NoArray, NoArray))

(***************************************************************************)
(* State.  kerns: the kern objects, in order of creation (kern objects are *)
(* never mutated after __init__ and the constraint transfer).  made: how   *)
(* each was made.  theta: each part's parameter vector.  last: the call    *)
(* the caller is in, with its arguments and its outcome.                   *)
(***************************************************************************)
NoOutcome == Raise("none")
Idle == [op |-> "idle", k |-> 0, args |-> <<>>, out |-> NoOutcome]
Called(op, k, args, out) == [op |-> op, k |-> k, args |-> args, out |-> out]

\* the constraints a parameterised object with n parameters may carry: none;
\* its first parameter positive; its first parameter fixed and its second
\* bounded; its first and last parameters tied and the last negative; two
\* bounded groups
ConstraintChoices(n) ==
  {NoConstraints}
    \cup (IF n < 1 THEN {}
          ELSE {[NoConstraints EXCEPT !.constrained_positive_indices = <<0>>],
                [NoConstraints EXCEPT
                   !.constrained_fixed_indices = << <<0>> >>,
                   !.constrained_fixed_values = <<7>>,
                   !.constrained_bounded_indices = IF n < 2 THEN <<>> ELSE << <<1>> >>,
                   !.constrained_bounded_lowers = IF n < 2 THEN <<>> ELSE <<1>>,
                   !.constrained_bounded_uppers = IF n < 2 THEN <<>> ELSE <<5>>]})
    \cup (IF n < 2 THEN {}
          ELSE {[NoConstraints EXCEPT
                   !.tied_indices = << <<0, n - 1>> >>,
                   !.constrained_negative_indices = <<n - 1>>]})
    \cup (IF n < 3 THEN {}
          ELSE {[NoConstraints EXCEPT
                   !.constrained_bounded_indices = << <<0>>, <<1, 2>> >>,
                   !.constrained_bounded_lowers = <<1, 2>>,
                   !.constrained_bounded_uppers = <<5, 6>>,
                   !.tied_indices = << <<1, 2>> >>]})

\* the column slices a part is constructed with
InputSliceChoices ==
  {sliceNone, slice(0, 1, NoneIdx), slice(-1, NoneIdx, NoneIdx),
   slice(NoneIdx, NoneIdx, -1), slice(NoneIdx, NoneIdx, 2)}

\* kern(D, parts, input_slices) for every choice of one slice per part, and
\* for input_slices left out
Constructed(D, parts) ==
  {kern(D, parts, PyNone)}
    \cup {kern(D, parts, PyList(sl)) : sl \in [1..Len(parts) -> InputSliceChoices]}

Constrained(ks) ==
  UNION {{[k EXCEPT !.con = c] : c \in ConstraintChoices(k.Nparam)} : k \in ks}

InitMade == [op |-> "init", a |-> 0, b |-> 0]
InitTheta == [p \in PartIds |-> [i \in 1..PartNparam(p) |-> 0]]

\* two composites, constructed over parts of their own
InitCompose ==
  /\ \E A \in Constrained(UNION {Constructed(D, ps) : D \in {1, 2}, ps \in {<<>>, <<1>>}}),
        B \in Constrained(UNION {Constructed(D, <<3>>) : D \in {2, 3}}
                            \cup {kern(2, <<2, 3>>, PyNone)}) :
       kerns = <<A, B>>
  /\ made = <<InitMade, InitMade>>
  /\ theta = InitTheta
  /\ last = Idle

\* a composite of one part, or of none (the constructor's default), and a
\* second composite of one part
Init ==
  /\ \E A \in {kern(D, <<1>>, PyList(<<sl>>)) :
                 D \in {1, 2}, sl \in {sliceNone, slice(0, 1, NoneIdx)}}
               \cup {kern(1, <<>>, PyNone)},
        B \in {kern(D, <<2>>, PyNone) : D \in {1, 2}} :
       kerns = <<A, B>>
  /\ made = <<InitMade, InitMade>>
  /\ theta = InitTheta
  /\ last = Idle

\* two single-part composites over the same input space
InitSum ==
  /\ \E D \in {2} :
       \E A \in {kern(D, <<1>>, PyList(<<sl>>)) :
                   sl \in {sliceNone, slice(0, 1, NoneIdx), slice(NoneIdx, NoneIdx, -1)}},
          B \in {kern(D, <<2>>, PyList(<<sl>>)) :
                   sl \in {sliceNone, slice(1, NoneIdx, NoneIdx)}} :
         kerns = <<A, B>>
  /\ made = <<InitMade, InitMade>>
  /\ theta = InitTheta
  /\ last = Idle

(***************************************************************************)
(* Inputs.                                                                 *)
(***************************************************************************)
XMat(n, d, seed) == Array(d, [r \in 1..n |-> [c \in 1..d |-> (r * seed + c) % 3]])

\* row selectors for a composite of Nparts parts: absent, booleans, ranges,
\* of the right and of a wrong length, and a mixed list
RowSelChoices(Nparts) ==
  {PyNone,
   PyList([i \in 1..Nparts |-> PyBool(TRUE)]),
   PyList([i \in 1..Nparts |-> PyBool(i % 2 = 1)]),
   PyList([i \in 1..(Nparts + 1) |-> PyBool(TRUE)]),
   PyList([i \in 1..(Nparts - 1) |-> PyBool(TRUE)]),
   PyList([i \in 1..Nparts |-> slice(0, 1, NoneIdx)]),
   PyList([i \in 1..(Nparts - 1) |-> slice(1, NoneIdx, NoneIdx)]),
   PyList(<<PyBool(TRUE), slice(0, 1, NoneIdx)>>)}

SelPairs(Nparts) ==
  {<<s, PyNone>> : s \in RowSelChoices(Nparts)}
    \cup {<<PyNone, PyList([i \in 1..n |-> PyBool(i % 2 = 0)])>> : n \in {Nparts, Nparts + 1}}
    \cup {<<PyList([i \in 1..n |-> slice(0, 1, NoneIdx)]),
            PyList([i \in 1..Nparts |-> slice(1, NoneIdx, NoneIdx)])>> :
              n \in {Nparts, Nparts + 1}}

Cols(D) == {d \in {D - 1, D, D + 1} : d >= 0}

\* (X, X2, slices1, slices2) for the binary operations of a composite
BinaryInputs(self) ==
  {<<XMat(n, d, 1), X2, PyNone, PyNone>> :
     n \in 1..MaxRows, d \in Cols(self.D),
     X2 \in {PyNone} \cup {XMat(m, self.D, 2) : m \in 1..MaxRows}}
    \cup {<<XMat(n, self.D, 1), PyNone, sp[1], sp[2]>> :
            n \in 1..MaxRows, sp \in SelPairs(self.Nparts)}

\* (X, slices) for the diagonal operations
UnaryInputs(self) ==
  {<<XMat(n, d, 1), PyNone>> : n \in 1..MaxRows, d \in Cols(self.D)}
    \cup {<<XMat(n, self.D, 1), s>> : n \in 1..MaxRows, s \in RowSelChoices(self.Nparts)}

\* the parameter vectors handed to set_param: 1, 2, ... of each length up to
\* one more than Nparam
ParamVectors(self) ==
  {[i \in 1..n |-> i] : n \in 0..(self.Nparam + 1)}

(***************************************************************************)
(* Actions: one per method, taken by the one caller while it is in no      *)
(* other call; Return is the caller taking the outcome.                    *)
(***************************************************************************)
Add ==
  /\ last = Idle
  /\ Len(kerns) < MaxKerns
  /\ \E a \in 1..Len(kerns), b \in 1..Len(kerns) :
       IF kerns[a].D = kerns[b].D
       THEN /\ kerns' = Append(kerns, add(kerns[a], kerns[b]))
            /\ made' = Append(made, [op |-> "add", a |-> a, b |-> b])
            /\ last' = Called("add", Len(kerns) + 1, <<a, b>>, NoOutcome)
       ELSE /\ last' = Called("add", 0, <<a, b>>, Raise("AssertionError"))
            /\ UNCHANGED <<kerns, made>>
  /\ UNCHANGED theta

AddOrthogonal ==
  /\ last = Idle
  /\ Len(kerns) < MaxKerns
  /\ \E a \in 1..Len(kerns), b \in 1..Len(kerns) :
       /\ kerns' = Append(kerns, add_orthogonal(kerns[a], kerns[b]))
       /\ made' = Append(made, [op |-> "add_orthogonal", a |-> a, b |-> b])
       /\ last' = Called("add_orthogonal", Len(kerns) + 1, <<a, b>>, NoOutcome)
  /\ UNCHANGED theta

SetParam ==
  /\ last = Idle
  /\ \E k \in 1..Len(kerns) : \E x \in ParamVectors(kerns[k]) :
       /\ theta' = StoreParams(theta, SetParamCalls(kerns[k], x))
       /\ last' = Called("set_param", k, <<x>>, set_param(kerns[k], x))
  /\ UNCHANGED <<kerns, made>>

GetParam ==
  /\ last = Idle
  /\ \E k \in 1..Len(kerns) :
       last' = Called("get_param", k, <<>>, get_param(kerns[k], theta))
  /\ UNCHANGED <<kerns, made, theta>>

ProcessSlices ==
  /\ last = Idle
  /\ \E k \in 1..Len(kerns) :
       \E sp \in SelPairs(kerns[k].Nparts)
                   \cup {<<s, PyFalse>> : s \in RowSelChoices(kerns[k].Nparts)} :
         LET ps == process_slices(kerns[k], sp[1], sp[2])
         IN last' = Called("_process_slices", k, [slices1 |-> sp[1], slices2 |-> sp[2]],
                           Outcome(ps.err, <<>>,
                                   [shape |-> <<>>,
                                    val |-> <<ps.slices1, ps.slices2>>]))
  /\ UNCHANGED <<kerns, made, theta>>

BinaryArgs(in) == [X |-> in[1], X2 |-> in[2], slices1 |-> in[3], slices2 |-> in[4]]

CallK ==
  /\ last = Idle
  /\ \E k \in 1..Len(kerns) : \E in \in BinaryInputs(kerns[k]) :
       last' = Called("K", k, BinaryArgs(in),
                      K(kerns[k], theta, in[1], in[2], in[3], in[4]))
  /\ UNCHANGED <<kerns, made, theta>>

CalldK_dtheta ==
  /\ last = Idle
  /\ \E k \in 1..Len(kerns) : \E in \in BinaryInputs(kerns[k]) :
       last' = Called("dK_dtheta", k, BinaryArgs(in),
                      dK_dtheta(kerns[k], theta, in[1], in[2], in[3], in[4]))
  /\ UNCHANGED <<kerns, made, theta>>

CalldK_dX ==
  /\ last = Idle
  /\ \E k \in 1..Len(kerns) : \E in \in BinaryInputs(kerns[k]) :
       last' = Called("dK_dX", k, BinaryArgs(in),
                      dK_dX(kerns[k], theta, in[1], in[2], in[3], in[4]))
  /\ UNCHANGED <<kerns, made, theta>>

UnaryArgs(in) == [X |-> in[1], X2 |-> PyNone, slices1 |-> in[2], slices2 |-> PyFalse]

CallKdiag ==
  /\ last = Idle
  /\ \E k \in 1..Len(kerns) : \E in \in UnaryInputs(kerns[k]) :
       last' = Called("Kdiag", k, UnaryArgs(in), Kdiag(kerns[k], theta, in[1], in[2]))
  /\ UNCHANGED <<kerns, made, theta>>

CalldKdiag_dtheta ==
  /\ last = Idle
  /\ \E k \in 1..Len(kerns) : \E in \in UnaryInputs(kerns[k]) :
       \E psize \in {in[1].shape[1], in[1].shape[1] + 1} :
         last' = Called("dKdiag_dtheta", k, UnaryArgs(in),
                        dKdiag_dtheta(kerns[k], theta, psize, in[1], in[2]))
  /\ UNCHANGED <<kerns, made, theta>>

CalldKdiag_dX ==
  /\ last = Idle
  /\ \E k \in 1..Len(kerns) : \E in \in UnaryInputs(kerns[k]) :
       \E subscriptable \in BOOLEAN :
         last' = Called("dKdiag_dX", k, UnaryArgs(in),
                        dKdiag_dX(kerns[k], theta, in[1], in[2], subscriptable))
  /\ UNCHANGED <<kerns, made, theta>>

PsiArgs(N, M) == [N |-> N, M |-> M]

Calldpsi0_dtheta ==
  /\ last = Idle
  /\ \E k \in 1..Len(kerns) : \E N \in 1..(MaxRows + 1) :
       last' = Called("dpsi0_dtheta", k, PsiArgs(N, 1), dpsi0_dtheta(kerns[k], theta, N))
  /\ UNCHANGED <<kerns, made, theta>>

Calldpsi1_dtheta ==
  /\ last = Idle
  /\ \E k \in 1..Len(kerns) : \E N \in 1..MaxRows, M \in 1..MaxRows :
       last' = Called("dpsi1_dtheta", k, PsiArgs(N, M),
                      dpsi1_dtheta(kerns[k], theta, N, M))
  /\ UNCHANGED <<kerns, made, theta>>

Calldpsi2_dtheta ==
  /\ last = Idle
  /\ \E k \in 1..Len(kerns) : \E M \in 1..MaxRows :
       last' = Called("dpsi2_dtheta", k, PsiArgs(1, M), dpsi2_dtheta(kerns[k], theta, M))
  /\ UNCHANGED <<kerns, made, theta>>

Return ==
  /\ last # Idle
  /\ last' = Idle
  /\ UNCHANGED <<kerns, made, theta>>

Next ==
  \/ Add
  \/ AddOrthogonal
  \/ GetParam
  \/ SetParam
  \/ ProcessSlices
  \/ CallK
  \/ CalldK_dtheta
  \/ CalldK_dX
  \/ CallKdiag
  \/ CalldKdiag_dtheta
  \/ CalldKdiag_dX
  \/ Calldpsi0_dtheta
  \/ Calldpsi1_dtheta
  \/ Calldpsi2_dtheta
  \/ Return

Spec == Init /\ [][Next]_vars

\* composition alone, over a wide choice of constructed composites
NextCompose ==
  \/ Add
  \/ AddOrthogonal
  \/ Return

SpecCompose == InitCompose /\ [][NextCompose]_vars

\* sums of single-part composites, their parameters and their covariance
NextSum ==
  \/ Add
  \/ SetParam
  \/ CallK
  \/ Return

SpecSum == InitSum /\ [][NextSum]_vars

(***************************************************************************)
(* Properties.                                                             *)
(***************************************************************************)
Composed == {k \in 1..Len(kerns) : made[k].op \in {"add", "add_orthogonal"}}
Left(k) == kerns[made[k].a]
Right(k) == kerns[made[k].b]

\* C1: for single-part composites A and B of equal dimension, any X (and
\* optional X2) with D columns and no row selectors, A.add(B).K(X, X2) is
\* the element-wise sum A.K(X, X2) + B.K(X, X2), each of the two parts
\* having accumulated once into the whole of the zero-initialised output.
C1_AddKIsSum ==
  (/\ last.op = "K"
   /\ made[last.k].op = "add"
   /\ Left(last.k).Nparts = 1
   /\ Right(last.k).Nparts = 1
   /\ last.args.slices1 = PyNone
   /\ last.args.slices2 = PyNone
   /\ last.args.X.shape[2] = kerns[last.k].D)
  => LET KA == K(Left(last.k), theta, last.args.X, last.args.X2, PyNone, PyNone)
         KB == K(Right(last.k), theta, last.args.X, last.args.X2, PyNone, PyNone)
         KC == last.out
     IN /\ KC.err = "none" /\ KA.err = "none" /\ KB.err = "none"
        /\ KC.result.shape = KA.result.shape
        /\ KC.result.shape = KB.result.shape
        /\ \A idx \in Cells(KC.result.shape) :
             KC.result.val[idx] = KA.result.val[idx] + KB.result.val[idx]
        /\ Len(KC.calls) = 2
        /\ \A i \in 1..2 : KC.calls[i].region = Cells(KC.result.shape)
        /\ KC.calls[1].part = Left(last.k).parts[1]
        /\ KC.calls[2].part = Right(last.k).parts[1]

\* the sum of two different single-part composites with different column
\* slices was evaluated on X and X2 of two rows, after a set_param
C1_Witness ==
  /\ last.op = "K"
  /\ made[last.k].op = "add"
  /\ made[last.k].a # made[last.k].b
  /\ Left(last.k).Nparts = 1
  /\ Right(last.k).Nparts = 1
  /\ Left(last.k).input_slices # Right(last.k).input_slices
  /\ last.args.slices1 = PyNone
  /\ last.args.slices2 = PyNone
  /\ last.args.X.shape = <<2, 2>>
  /\ last.args.X2.tag = "array"
  /\ last.args.X2.shape = <<2, 2>>
  /\ theta[1] # <<0>>
  /\ last.out.err = "none"
  /\ last.out.result.val[<<1, 1>>] > 0

\* C2: every constraint index collection of A.add(B) and of
\* A.add_orthogonal(B) (positive, negative, bounded, fixed, each tied group)
\* is A's followed by B's with every index shifted by A.Nparam; the bounded
\* lowers and uppers and the fixed values are A's followed by B's, unshifted.
Followed(c, a, b, n) ==
  /\ Len(c) = Len(a) + Len(b)
  /\ \A i \in 1..Len(a) : c[i] = a[i]
  /\ \A i \in 1..Len(b) : c[Len(a) + i] = b[i] + n

FollowedEach(c, a, b, n) ==
  /\ Len(c) = Len(a) + Len(b)
  /\ \A i \in 1..Len(a) : c[i] = a[i]
  /\ \A i \in 1..Len(b) : Followed(c[Len(a) + i], <<>>, b[i], n)

C2_ConstraintsMerged ==
  \A k \in Composed :
    LET A == Left(k).con
        B == Right(k).con
        C == kerns[k].con
        n == Left(k).Nparam
    IN /\ Followed(C.constrained_positive_indices, A.constrained_positive_indices,
                   B.constrained_positive_indices, n)
       /\ Followed(C.constrained_negative_indices, A.constrained_negative_indices,
                   B.constrained_negative_indices, n)
       /\ FollowedEach(C.constrained_bounded_indices, A.constrained_bounded_indices,
                       B.constrained_bounded_indices, n)
       /\ Followed(C.constrained_bounded_lowers, A.constrained_bounded_lowers,
                   B.constrained_bounded_lowers, 0)
       /\ Followed(C.constrained_bounded_uppers, A.constrained_bounded_uppers,
                   B.constrained_bounded_uppers, 0)
       /\ FollowedEach(C.constrained_fixed_indices, A.constrained_fixed_indices,
                       B.constrained_fixed_indices, n)
       /\ Followed(C.constrained_fixed_values, A.constrained_fixed_values,
                   B.constrained_fixed_values, 0)
       /\ FollowedEach(C.tied_indices, A.tied_indices, B.tied_indices, n)

\* two different composites of one parameter each, both with positive
\* indices {0}, were added, giving positive indices {0, 1}
C2_Witness ==
  \E k \in Composed :
    /\ made[k].op = "add"
    /\ made[k].a # made[k].b
    /\ Left(k).Nparam = 1 /\ Right(k).Nparam = 1
    /\ Left(k).con.constrained_positive_indices = <<0>>
    /\ Right(k).con.constrained_positive_indices = <<0>>
    /\ kerns[k].con.constrained_positive_indices = <<0, 1>>

\* C3: A.add_orthogonal(B) has dimension A.D + B.D and parts A's followed by
\* B's; each input slice of A becomes an explicit range selecting the same
\* columns, each input slice of B an explicit range selecting the columns
\* c + A.D for the columns c it selected among B's own.
C3_OrthogonalSlices ==
  \A k \in Composed :
    made[k].op = "add_orthogonal" =>
      LET A == Left(k)
          B == Right(k)
          C == kerns[k]
          Explicit(sl) == sl.start # NoneIdx /\ sl.stop # NoneIdx /\ sl.step # NoneIdx
      IN /\ C.D = A.D + B.D
         /\ C.parts = A.parts \o B.parts
         /\ Len(C.input_slices) = Len(A.input_slices) + Len(B.input_slices)
         /\ \A i \in 1..Len(A.input_slices) :
              /\ Explicit(C.input_slices[i])
              /\ Select(C.input_slices[i], C.D) = Select(A.input_slices[i], A.D)
         /\ \A j \in 1..Len(B.input_slices) :
              /\ Explicit(C.input_slices[Len(A.input_slices) + j])
              /\ Select(C.input_slices[Len(A.input_slices) + j], C.D)
                   = Shift(A.D, Select(B.input_slices[j], B.D))

\* C4: in every composite, constructed or composed, param_slices has one
\* half-open range per part, the first starting at 0, each starting where
\* the one before ends and as long as its part's Nparam, the last ending at
\* Nparam, which is the sum of the parts' Nparam; input_slices, parts and
\* param_slices have the same length; and get_param returns Nparam values
\* when there is a part, and raises ValueError when there is none.
C4_ParamSlicesContiguous ==
  \A k \in 1..Len(kerns) :
    LET self == kerns[k]
        n == Len(self.parts)
    IN /\ Len(self.param_slices) = n
       /\ Len(self.input_slices) = n
       /\ self.Nparts = n
       /\ \A i \in 1..n :
            /\ self.param_slices[i].start
                 = (IF i = 1 THEN 0 ELSE self.param_slices[i - 1].stop)
            /\ self.param_slices[i].stop - self.param_slices[i].start
                 = PartNparam(self.parts[i])
            /\ self.param_slices[i].step = NoneIdx
            /\ Len(Select(self.param_slices[i], self.Nparam)) = PartNparam(self.parts[i])
       /\ \A i \in 1..n : \A j \in 1..n :
            i # j => Members(Select(self.param_slices[i], self.Nparam))
                       \cap Members(Select(self.param_slices[j], self.Nparam)) = {}
       /\ self.Nparam = (IF n = 0 THEN 0 ELSE self.param_slices[n].stop)
       /\ self.Nparam = SumSeq([i \in 1..n |-> PartNparam(self.parts[i])])
       /\ IF n = 0 THEN get_param(self, theta).err = "ValueError"
          ELSE /\ get_param(self, theta).err = "none"
               /\ get_param(self, theta).result.shape = <<self.Nparam>>

\* a composite of three parts, made by composition, whose third range
\* starts at 3
C4_Witness ==
  \E k \in Composed :
    /\ Len(kerns[k].parts) = 3
    /\ kerns[k].param_slices[2] = slice(1, 3, NoneIdx)
    /\ kerns[k].param_slices[3] = slice(3, 4, NoneIdx)
    /\ kerns[k].Nparam = 4

\* C5: after C = A.add(B) or C = A.add_orthogonal(B), C.set_param(v) with v
\* of length C.Nparam leaves A.get_param() and B.get_param() unchanged, and
\* set_param on A or B leaves C.get_param() unchanged.
C5_PartsOwned ==
  [][\A k \in Composed :
       /\ (last'.op = "set_param" /\ last'.k = k /\ Len(last'.args[1]) = kerns[k].Nparam)
            => /\ get_param(Left(k), theta') = get_param(Left(k), theta)
               /\ get_param(Right(k), theta') = get_param(Right(k), theta)
       /\ (last'.op = "set_param" /\ last'.k \in {made[k].a, made[k].b}
             /\ Len(last'.args[1]) = kerns[last'.k].Nparam)
            => get_param(kerns[k], theta') = get_param(kerns[k], theta)]_vars

\* C6: set_param(x) fails whenever len(x) differs from Nparam, having
\* forwarded nothing to any part; when the lengths agree part i receives
\* x[param_slices[i]].
C6_SetParamLength ==
  last.op = "set_param" =>
    LET self == kerns[last.k]
        x == last.args[1]
    IN IF Len(x) # self.Nparam
       THEN last.out.err # "none" /\ last.out.calls = <<>>
       ELSE /\ last.out.err = "none"
            /\ Len(last.out.calls) = Len(self.parts)
            /\ \A i \in 1..Len(self.parts) :
                 /\ last.out.calls[i].part = self.parts[i]
                 /\ last.out.calls[i].arg
                      = [j \in 1..(self.param_slices[i].stop - self.param_slices[i].start)
                           |-> x[self.param_slices[i].start + j]]

\* C7: K, dK_dtheta, dK_dX, Kdiag, dKdiag_dtheta and dKdiag_dX fail, before
\* invoking any part, whenever X has a column count other than D.
C7_DimensionChecked ==
  (/\ last.op \in {"K", "dK_dtheta", "dK_dX", "Kdiag", "dKdiag_dtheta", "dKdiag_dX"}
   /\ last.args.X.shape[2] # kerns[last.k].D)
  => last.out.err = "AssertionError" /\ last.out.calls = <<>>

\* C8: a row selector given as a list whose length differs from the number
\* of parts is rejected by _process_slices and by K, dK_dtheta, dK_dX, Kdiag
\* and dKdiag_dtheta; whenever resolution succeeds the resolved lists have
\* one entry per part.
WrongLength(s, Nparts) == s.tag = "list" /\ Len(s.items) # Nparts

C8_SelectorLengthChecked ==
  last.op \in {"_process_slices", "K", "dK_dtheta", "dK_dX", "Kdiag", "dKdiag_dtheta"} =>
    LET n == kerns[last.k].Nparts IN
    /\ (WrongLength(last.args.slices1, n) \/ WrongLength(last.args.slices2, n))
         => last.out.err # "none"
    /\ (last.op = "_process_slices" /\ last.out.err = "none")
         => /\ Len(last.out.result.val[1]) = n
            /\ last.args.slices2 # PyFalse => Len(last.out.result.val[2]) = n
    /\ (last.op # "_process_slices" /\ last.out.err = "none")
         => Len(last.out.calls) = n

\* C9: in dpsi0_dtheta, dpsi1_dtheta and dpsi2_dtheta the view handed to
\* part i is the region of the output whose last-axis index lies in
\* param_slices[i], over all indices of the leading axes; the views of
\* different parts are disjoint and together cover the output.
C9_PsiThetaRegions ==
  last.op \in {"dpsi0_dtheta", "dpsi1_dtheta", "dpsi2_dtheta"} =>
    LET self == kerns[last.k]
        shape == last.out.result.shape
        calls == last.out.calls
        Own(i) == {idx \in Cells(shape) :
                     /\ idx[Len(shape)] >= self.param_slices[i].start
                     /\ idx[Len(shape)] < self.param_slices[i].stop}
    IN /\ last.out.err = "none"
       /\ Len(calls) = Len(self.parts)
       /\ shape[Len(shape)] = self.Nparam
       /\ \A i \in 1..Len(calls) : calls[i].region = Own(i)
       /\ \A i \in 1..Len(calls) : \A j \in 1..Len(calls) :
            i # j => calls[i].region \cap calls[j].region = {}
       /\ UNION {calls[i].region : i \in 1..Len(calls)} = Cells(shape)

\* C10: dKdiag_dX, for every X with D columns and a row selector absent or
\* with one entry per part, completes without error and returns a target of
\* the shape of X, having invoked each part once, in order, with the part's
\* row-sliced partial, its row- and column-sliced view of X and the matching
\* view of the target.
C10_dKdiag_dX_Completes ==
  (/\ last.op = "dKdiag_dX"
   /\ last.args.X.shape[2] = kerns[last.k].D
   /\ ~WrongLength(last.args.slices1, kerns[last.k].Nparts)
   /\ (last.args.slices1.tag = "list"
         => AllTag(last.args.slices1.items, "bool")
              \/ AllTag(last.args.slices1.items, "slice")))
  => LET self == kerns[last.k]
         X == last.args.X
         sel == ResolveSelector(self.Nparts, last.args.slices1).list
         calls == last.out.calls
     IN /\ last.out.err = "none"
        /\ last.out.result.shape = X.shape
        /\ Len(calls) = Len(self.parts)
        /\ \A i \in 1..Len(calls) :
             /\ calls[i].part = self.parts[i]
             /\ calls[i].partial = "array"
             /\ calls[i].rows1 = Select(sel[i], X.shape[1])
             /\ calls[i].cols = Select(self.input_slices[i], X.shape[2])
             /\ calls[i].region = Prod(calls[i].rows1, calls[i].cols)

====
